---------------------------- MODULE Spec2Model ----------------------------
(***************************************************************************)
(* A model of PhysicalQuantities/Unit.py: the PhysicalUnit algebra, the    *)
(* conversion functions, the text evaluation done by findUnit and addUnit  *)
(* (Python 2 eval with unit_table as its globals), the registry            *)
(* unit_table, addUnit, addPrefixed and the module's bootstrap statements. *)
(*                                                                         *)
(* Text is a sequence of one-character strings.  A Python number is kept   *)
(* exactly: [k, n, d, e, p, q] stands for ((n/d) * 10^e * pi^p)^(1/q),     *)
(* k being the Python type ("int" or "float").                             *)
(***************************************************************************)
EXTENDS Integers, Sequences, FiniteSets, TLC

-----------------------------------------------------------------------------
(* Text helpers *)

DigitChars == <<"0", "1", "2", "3", "4", "5", "6", "7", "8", "9">>

IsDigit(c) == \E i \in 1..10 : DigitChars[i] = c

DigitVal(c) == (CHOOSE i \in 1..10 : DigitChars[i] = c) - 1

LetterChars == {"a", "b", "c", "d", "e", "f", "g", "h", "i", "j", "k", "l", "m", "n", "o", "p", "q", "r", "s", "t", "u", "v", "w", "x", "y", "z", "A", "B", "C", "D", "E", "F", "G", "H", "I", "J", "K", "L", "M", "N", "O", "P", "Q", "R", "S", "T", "U", "V", "W", "X", "Y", "Z", "_"}

IsIdStart(c) == c \in LetterChars

IsIdChar(c) == IsIdStart(c) \/ IsDigit(c)

Abs(x) == IF x < 0 THEN -x ELSE x

Max(x, y) == IF x < y THEN y ELSE x

RECURSIVE DigitsOf(_)
DigitsOf(n) ==
    IF n < 10 THEN <<DigitChars[n + 1]>>
    ELSE DigitsOf(n \div 10) \o <<DigitChars[(n % 10) + 1]>>

RECURSIVE Zeros(_)
Zeros(k) == IF k <= 0 THEN <<>> ELSE <<"0">> \o Zeros(k - 1)

RECURSIVE DigitsVal(_)
DigitsVal(s) ==
    IF s = <<>> THEN 0
    ELSE 10 * DigitsVal(SubSeq(s, 1, Len(s) - 1)) + DigitVal(s[Len(s)])

\* s[i..] starts with the text pat
StartsAt(s, i, pat) ==
    /\ i + Len(pat) - 1 <= Len(s)
    /\ \A j \in 1..Len(pat) : s[i + j - 1] = pat[j]

\* str.replace(old, new): leftmost, non-overlapping occurrences
RECURSIVE ReplaceFrom(_, _, _, _)
ReplaceFrom(s, i, old, new) ==
    IF i > Len(s) THEN <<>>
    ELSE IF StartsAt(s, i, old) THEN new \o ReplaceFrom(s, i + Len(old), old, new)
    ELSE <<s[i]>> \o ReplaceFrom(s, i + 1, old, new)

Replace(s, old, new) == ReplaceFrom(s, 1, old, new)

IsSpace(c) == c = " "

\* str.strip()
RECURSIVE LStrip(_)
LStrip(s) == IF s # <<>> /\ IsSpace(s[1]) THEN LStrip(Tail(s)) ELSE s

RECURSIVE RStrip(_)
RStrip(s) ==
    IF s # <<>> /\ IsSpace(s[Len(s)]) THEN RStrip(SubSeq(s, 1, Len(s) - 1)) ELSE s

Strip(s) == LStrip(RStrip(s))

-----------------------------------------------------------------------------
(* Python numbers, exactly *)

RECURSIVE GCD(_, _)
GCD(a, b) == IF b = 0 THEN a ELSE GCD(b, a % b)

LCM(a, b) == (a * b) \div GCD(a, b)

RECURSIVE IPow(_, _)
IPow(b, k) == IF k = 0 THEN 1 ELSE b * IPow(b, k - 1)

\* the r with r^k = n, or -1 when n is no perfect k-th power (n >= 0, k >= 1)
RECURSIVE IRootFrom(_, _, _)
IRootFrom(n, k, r) ==
    IF IPow(r, k) = n THEN r
    ELSE IF IPow(r, k) > n THEN -1
    ELSE IRootFrom(n, k, r + 1)

IRoot(n, k) == IRootFrom(n, k, 0)

RECURSIVE Pull2(_, _, _)
Pull2(n, d, e) == IF d % 2 = 0 THEN Pull2(n * 5, d \div 2, e - 1) ELSE <<n, d, e>>

RECURSIVE Pull5(_, _, _)
Pull5(n, d, e) == IF d % 5 = 0 THEN Pull5(n * 2, d \div 5, e - 1) ELSE <<n, d, e>>

RECURSIVE Pull10(_, _, _)
Pull10(n, d, e) == IF n % 10 = 0 THEN Pull10(n \div 10, d, e + 1) ELSE <<n, d, e>>

\* the unique form of (n/d) * 10^e: d > 0 prime to 10 and to n, 10 not dividing n
Sign(d) == IF d < 0 THEN -1 ELSE 1

Cancel(t, g) == Pull10(t[1] \div g, t[2] \div g, t[3])

Lowest(t) == Cancel(t, GCD(Abs(t[1]), t[2]))

PullFives(t) == Pull5(t[1], t[2], t[3])

Norm3By(n, d, e, g) == Lowest(PullFives(Pull2(n \div g, d \div g, e)))

Norm3(n, d, e) ==
    IF n = 0 THEN <<0, 1, 0>>
    ELSE Norm3By(Sign(d) * n, Sign(d) * d, e, GCD(Abs(n), Abs(d)))

\* is (n/d) * 10^e * pi^p a perfect g-th power, for n > 0
PerfectPower(n, d, e, p, g) ==
    /\ IRoot(n, g) >= 0
    /\ IRoot(d, g) >= 0
    /\ e % g = 0
    /\ p % g = 0

\* the largest g dividing q such that the base is a perfect g-th power
RECURSIVE RootReduce(_, _, _, _, _, _)
RootReduce(n, d, e, p, q, g) ==
    IF g = 1 THEN 1
    ELSE IF q % g = 0 /\ PerfectPower(n, d, e, p, g) THEN g
    ELSE RootReduce(n, d, e, p, q, g - 1)

Num(k, n, d, e, p, q) == [k |-> k, n |-> n, d |-> d, e |-> e, p |-> p, q |-> q]

\* the g-th root taken out of a root index that g divides
TakeRoot(k, t, p, q, g) ==
    Num(k, IRoot(t[1], g), IRoot(t[2], g), t[3] \div g, p \div g, q \div g)

\* the number of the normal form t of (n/d) * 10^e
MkNormal(k, t, p, q) ==
    IF t[1] = 0 THEN Num(k, 0, 1, 0, 0, 1)
    ELSE IF q = 1 \/ t[1] < 0 THEN Num(k, t[1], t[2], t[3], p, q)
    ELSE TakeRoot(k, t, p, q, RootReduce(t[1], t[2], t[3], p, q, q))

MkNum(k, n, d, e, p, q) == MkNormal(k, Norm3(n, d, e), p, q)

PyInt(n) == MkNum("int", n, 1, 0, 0, 1)

PyFloat(n, d) == MkNum("float", n, d, 0, 0, 1)

\* a float given as mantissa and decimal exponent: 1.e-18 is FloatE(1, -18)
FloatE(n, e) == MkNum("float", n, 1, e, 0, 1)

IsZero(x) == x.n = 0

\* Python's ==  on numbers compares the values, not the types
NumEq(x, y) == x.n = y.n /\ x.d = y.d /\ x.e = y.e /\ x.p = y.p /\ x.q = y.q

IsInt(x) == x.k = "int"

\* the value of a Python int
IntVal(x) == x.n * IPow(10, x.e)

\* the product and the quotient of two bases under the root index L
Times(k, a, b, L) == MkNum(k, a.n * b.n, a.d * b.d, a.e + b.e, a.p + b.p, L)

Over(k, a, b, L) == MkNum(k, a.n * b.d, a.d * b.n, a.e - b.e, a.p - b.p, L)

\* x (with root index x.q) raised to the common root index L
RECURSIVE NumPowPos(_, _)
NumPowPos(x, k) ==
    IF k = 0 THEN Num(x.k, 1, 1, 0, 0, 1)
    ELSE Times(x.k, x, NumPowPos(x, k - 1), 1)

Lift(x, L) == NumPowPos([x EXCEPT !.q = 1], L \div x.q)

ResKind(x, y) == IF IsInt(x) /\ IsInt(y) THEN "int" ELSE "float"

TimesLifted(x, y, L) == Times(ResKind(x, y), Lift(x, L), Lift(y, L), L)

NumMul(x, y) == TimesLifted(x, y, LCM(x.q, y.q))

\* floor division of Python 2 ints
FloorDivPos(x, y) == IF x >= 0 THEN x \div y ELSE -((-x + y - 1) \div y)

FloorDiv(a, b) == FloorDivPos(Sign(b) * a, Sign(b) * b)

\* x / y of Python 2 (classic division), y not zero
OverLifted(x, y, L) == Over("float", Lift(x, L), Lift(y, L), L)

NumDiv(x, y) ==
    IF IsInt(x) /\ IsInt(y) THEN PyInt(FloorDiv(IntVal(x), IntVal(y)))
    ELSE OverLifted(x, y, LCM(x.q, y.q))

Min(a, b) == IF a < b THEN a ELSE b

\* x + y, both written with the decimal exponent m
AddScaled(x, y, m) ==
    MkNum(ResKind(x, y),
          x.n * IPow(10, x.e - m) * y.d + y.n * IPow(10, y.e - m) * x.d,
          x.d * y.d, m, 0, 1)

\* x + y and x - y, for numbers without pi or root part of a common scale
NumAdd(x, y) ==
    IF IsZero(y) THEN [x EXCEPT !.k = ResKind(x, y)]
    ELSE IF IsZero(x) THEN [y EXCEPT !.k = ResKind(x, y)]
    ELSE AddScaled(x, y, Min(x.e, y.e))

NumNeg(x) == [x EXCEPT !.n = -x.n]

NumSub(x, y) == NumAdd(x, NumNeg(y))

\* pow(x, k) for a Python int k; x not zero when k < 0
PowSigned(t, a, k, q) ==
    IF k >= 0 THEN MkNum(t, a.n, a.d, a.e, a.p, q)
    ELSE MkNum(t, a.d, a.n, -a.e, -a.p, q)

NumPowInt(x, k) ==
    PowSigned(IF IsInt(x) /\ k >= 0 THEN "int" ELSE "float",
              NumPowPos([x EXCEPT !.q = 1], Abs(k)), k, x.q)

\* pow(x, 1.0/r) for x > 0 and an int r that is not 0
RootOf(a, r) == MkNum("float", a.n, a.d, a.e, a.p, a.q * r)

NumRoot(x, r) == RootOf(IF r > 0 THEN x ELSE NumPowInt(x, -1), Abs(r))

\* a * 10^k < b and a * 10^k <= b for ints a, b >= 0 and k >= 0, the scaling
\* stopped as soon as the answer is known
RECURSIVE LessScaled(_, _, _)
LessScaled(a, b, k) ==
    IF a >= b THEN FALSE ELSE IF k = 0 THEN TRUE ELSE LessScaled(a * 10, b, k - 1)

RECURSIVE LessEqScaled(_, _, _)
LessEqScaled(a, b, k) ==
    IF a > b THEN FALSE ELSE IF k = 0 \/ a = 0 THEN TRUE ELSE LessEqScaled(a * 10, b, k - 1)

\* x < y for numbers >= 0 without pi or root part
NumLess(x, y) ==
    IF IsZero(y) THEN FALSE
    ELSE IF IsZero(x) THEN TRUE
    ELSE IF x.e >= y.e THEN LessScaled(x.n * y.d, y.n * x.d, x.e - y.e)
    ELSE ~LessEqScaled(y.n * x.d, x.n * y.d, y.e - x.e)

NumAbs(x) == [x EXCEPT !.n = Abs(x.n)]

\* floor(x + 0.5) for a float x = (n/d) * 10^e without pi or root part
FloorHalfUp(num, den) == FloorDiv(2 * num + den, 2 * den)

RoundHalfUp(x) ==
    IF NumLess(NumAbs(x), Num("float", 1, 1, -1, 0, 1)) THEN 0
    ELSE IF x.e >= 0 THEN FloorHalfUp(x.n * IPow(10, x.e), x.d)
    ELSE FloorHalfUp(x.n, x.d * IPow(10, -x.e))


\* str(x) of a Python number.  An int, a float with a finite decimal expansion
\* and pi are rendered as Python 2 renders them ('%.12g', '.0' added to a float
\* that looks like an int); any other value has no finite exact rendering and
\* is rendered as '~' followed by its exact form.
Minus(n) == IF n < 0 THEN <<"-">> ELSE <<>>

\* an exponent of at least two digits
TwoDigits(xd) == IF Len(xd) < 2 THEN <<"0">> \o xd ELSE xd

\* the digits D with the decimal exponent X of their first digit, as %e
StrExp(D, X) ==
    <<D[1]>> \o (IF Len(D) > 1 THEN <<".">> \o Tail(D) ELSE <<>>)
    \o <<"e">> \o (IF X < 0 THEN <<"-">> ELSE <<"+">>) \o TwoDigits(DigitsOf(Abs(X)))

\* the digits D with the point after the first k of them (k may be <= 0)
StrPoint(D, k) ==
    IF k > 0 THEN SubSeq(D, 1, k) \o <<".">> \o SubSeq(D, k + 1, Len(D))
    ELSE <<"0", ".">> \o Zeros(-k) \o D

\* a float D * 10^e that is not zero, D the digits of its mantissa
StrFloat(D, e) ==
    IF Len(D) - 1 + e < -4 \/ Len(D) - 1 + e >= 12 THEN StrExp(D, Len(D) - 1 + e)
    ELSE IF e >= 0 THEN D \o Zeros(e) \o <<".", "0">>
    ELSE StrPoint(D, Len(D) + e)

StrExact(x) ==
    <<"~">> \o Minus(x.n) \o DigitsOf(Abs(x.n)) \o <<"/">> \o DigitsOf(x.d)
    \o <<"e">> \o Minus(x.e) \o DigitsOf(Abs(x.e))
    \o <<"p">> \o Minus(x.p) \o DigitsOf(Abs(x.p))
    \o <<"r">> \o DigitsOf(x.q)

StrNum(x) ==
    IF x.d = 1 /\ x.p = 0 /\ x.q = 1
    THEN IF IsInt(x) THEN Minus(x.n) \o DigitsOf(Abs(x.n)) \o Zeros(x.e)
         ELSE IF IsZero(x) THEN <<"0", ".", "0">>
         ELSE Minus(x.n) \o StrFloat(DigitsOf(Abs(x.n)), x.e)
    ELSE IF x.n = 1 /\ x.d = 1 /\ x.e = 0 /\ x.p = 1 /\ x.q = 1
         THEN <<"3", ".", "1", "4", "1", "5", "9", "2", "6", "5", "3", "5", "9">>
    ELSE StrExact(x)

-----------------------------------------------------------------------------
(* NumberDict (module NDict): a dictionary whose missing keys read as 0,     *)
(* added and subtracted key by key, multiplied and divided by a number.      *)
(* A NumberDict is a function from its keys (texts) to integers.             *)

EmptyDict == [k \in {} |-> 0]

OneEntry(key, v) == [k \in {key} |-> v]

NDGet(nd, key) == IF key \in DOMAIN nd THEN nd[key] ELSE 0

NDSet(nd, key, v) == [k \in DOMAIN nd \cup {key} |-> IF k = key THEN v ELSE nd[k]]

NDAdd(a, b) == [k \in DOMAIN a \cup DOMAIN b |-> NDGet(a, k) + NDGet(b, k)]

NDSub(a, b) == [k \in DOMAIN a \cup DOMAIN b |-> NDGet(a, k) - NDGet(b, k)]

NDMul(a, n) == [k \in DOMAIN a |-> n * a[k]]

NDDiv(a, n) == [k \in DOMAIN a |-> FloorDiv(a[k], n)]

-----------------------------------------------------------------------------
(* class PhysicalUnit *)

\* Exceptions, by type and message
NoExc == "none"
ExcMultiplyOffset == "UnitError: Cannot multiply units with non-zero offset"
ExcDivideOffset == "UnitError: Cannot divide units with non-zero offset"
ExcPowOffset == "UnitError: Cannot exponentiate units with non-zero offset"
ExcIllegalExponent == "UnitError: Illegal exponent"
ExcOnlyInteger == "UnitError: Only integer and inverse integer exponents allowed"
ExcIncompatible == "UnitError: Incompatible units"
ExcNotSimpleFactor == "UnitError: Unit conversion cannot be expressed as a simple multiplicative factor"
ExcUnknownUnit == "UnitError: Invalid or unknown unit"
ExcNotAUnit == "UnitError: is not a unit"
ExcDuplicate == "KeyError: Unit already defined"
ExcKeyError == "KeyError"
ExcNameError == "NameError"
ExcZeroDivision == "ZeroDivisionError"
ExcAttribute == "AttributeError"
ExcType == "TypeError"
ExcValue == "ValueError"
ExcSyntax == "SyntaxError"

NDims == 9

ZeroPowers == [i \in 1..NDims |-> 0]

base_names == <<<<"m">>, <<"k", "g">>, <<"s">>, <<"A">>, <<"K">>, <<"m", "o", "l">>, <<"c", "d">>, <<"r", "a", "d">>, <<"s", "r">>>>

\* where an object's baseunit attribute points
BaseSelf == [k |-> "self", ref |-> 0, text |-> <<>>]
BaseRef(id) == [k |-> "ref", ref |-> id, text |-> <<>>]
BaseText(t) == [k |-> "text", ref |-> 0, text |-> t]
BaseNone == [k |-> "None", ref |-> 0, text |-> <<>>]

\* PhysicalUnit.__init__, names given as a dictionary
PhysicalUnit(names, factor, powers, offset, url, comment) ==
    [names |-> names, factor |-> factor, powers |-> powers, offset |-> offset,
     prefixed |-> FALSE, baseunit |-> BaseSelf, comment |-> comment, url |-> url]

\* PhysicalUnit.__init__, names given as a string
PhysicalUnitNamed(nm, factor, powers, offset, url, comment) ==
    PhysicalUnit(OneEntry(nm, 1), factor, powers, offset, url, comment)

set_name(u, nm) == [u EXCEPT !.names = OneEntry(nm, 1)]

\* Values of the evaluated language
UnitVal(u) == [t |-> "unit", ref |-> 0, u |-> u]
NumVal(x) == [t |-> "num", num |-> x]
NoneVal == [t |-> "None"]

isPhysicalUnit(v) == v.t = "unit"

IsNumber(v) == v.t = "num"

\* str(other) where other is not a unit
StrVal(v) == IF IsNumber(v) THEN StrNum(v.num) ELSE <<"<", v.t, ">">>

Raise(exc) == [exc |-> exc, val |-> NoneVal]

Return(v) == [exc |-> NoExc, val |-> v]

\* the test of line 142 without its second half
mul_offset_self_only(self, other) == IsZero(self.offset)

\* PhysicalUnit.__mul__ (and __rmul__): self a unit, other any value
mul_offset_ok(self, other) ==
    ~(~IsZero(self.offset) \/ (isPhysicalUnit(other) /\ ~IsZero(other.u.offset)))

__mul__(self, other) ==
    IF ~mul_offset_ok(self, other) THEN Raise(ExcMultiplyOffset)
    ELSE IF isPhysicalUnit(other)
    THEN Return(UnitVal(PhysicalUnit(NDAdd(self.names, other.u.names),
                        NumMul(self.factor, other.u.factor),
                        [i \in 1..NDims |-> self.powers[i] + other.u.powers[i]],
                        PyInt(0), "", "")))
    ELSE IF ~IsNumber(other) THEN Raise(ExcType)
    ELSE Return(UnitVal(PhysicalUnit(NDAdd(self.names, OneEntry(StrVal(other), 1)),
                        NumMul(self.factor, other.num), self.powers,
                        NumMul(self.offset, other.num), "", "")))

div_offset_ok(self, other) ==
    ~(~IsZero(self.offset) \/ (isPhysicalUnit(other) /\ ~IsZero(other.u.offset)))

__div__(self, other) ==
    IF ~div_offset_ok(self, other) THEN Raise(ExcDivideOffset)
    ELSE IF isPhysicalUnit(other)
    THEN IF IsZero(other.u.factor) THEN Raise(ExcZeroDivision)
         ELSE Return(UnitVal(PhysicalUnit(NDSub(self.names, other.u.names),
                        NumDiv(self.factor, other.u.factor),
                        [i \in 1..NDims |-> self.powers[i] - other.u.powers[i]],
                        PyInt(0), "", "")))
    ELSE IF ~IsNumber(other) THEN Raise(ExcType)
    ELSE IF IsZero(other.num) THEN Raise(ExcZeroDivision)
    ELSE Return(UnitVal(PhysicalUnit(NDAdd(self.names, OneEntry(StrVal(other), -1)),
                        NumDiv(self.factor, other.num), self.powers,
                        PyInt(0), "", "")))

rdiv_offset_ok(self, other) ==
    ~(~IsZero(self.offset) \/ (isPhysicalUnit(other) /\ ~IsZero(other.u.offset)))

__rdiv__(self, other) ==
    IF ~rdiv_offset_ok(self, other) THEN Raise(ExcDivideOffset)
    ELSE IF isPhysicalUnit(other)
    THEN IF IsZero(self.factor) THEN Raise(ExcZeroDivision)
         ELSE Return(UnitVal(PhysicalUnit(NDSub(other.u.names, self.names),
                        NumDiv(other.u.factor, self.factor),
                        [i \in 1..NDims |-> other.u.powers[i] - self.powers[i]],
                        PyInt(0), "", "")))
    ELSE IF ~IsNumber(other) THEN Raise(ExcType)
    ELSE IF IsZero(self.factor) THEN Raise(ExcZeroDivision)
    ELSE Return(UnitVal(PhysicalUnit(NDSub(OneEntry(StrVal(other), 1), self.names),
                        NumDiv(other.num, self.factor),
                        [i \in 1..NDims |-> -self.powers[i]],
                        PyInt(0), "", "")))

TOLERANCE == FloatE(1, -10)

\* abs(inv_exp - rounded) < 1.e-10
WithinTolerance(inv_exp, rounded) ==
    NumLess(NumAbs(NumSub(inv_exp, PyInt(rounded))), TOLERANCE)

\* reduce(lambda a, b: a and b, map(lambda x, e=rounded: x % e == 0, xs)), e not 0
AllDivisible(xs, e) == \A i \in DOMAIN xs : xs[i] % Abs(e) = 0

SyntheticOver(nd, p) ==
    [k \in DOMAIN nd \cup {base_names[i] : i \in 1..NDims} |->
        IF \E i \in 1..NDims : base_names[i] = k
        THEN p[CHOOSE i \in 1..NDims : base_names[i] = k]
        ELSE nd[k]]

\* the names of a root whose name powers do not divide (lines 197-201)
SyntheticNames(f, p) ==
    SyntheticOver(IF ~NumEq(f, PyFloat(1, 1)) THEN OneEntry(StrNum(f), 1) ELSE EmptyDict, p)

pow_offset_ok(self) == IsZero(self.offset)

\* lines 190-203: the root with factor f and powers p
pow_root(self, rounded, f, p) ==
    Return(UnitVal(PhysicalUnit(IF AllDivisible(self.names, rounded)
                                THEN NDDiv(self.names, rounded)
                                ELSE SyntheticNames(f, p),
                                f, p, PyInt(0), "", "")))

\* lines 187-205, rounded = int(floor(0.5 + inv_exp))
pow_rounded(self, inv_exp, rounded) ==
    IF WithinTolerance(inv_exp, rounded)
    THEN IF rounded = 0 THEN Raise(ExcZeroDivision)
         ELSE IF AllDivisible(self.powers, rounded)
         THEN IF self.factor.n < 0 THEN Raise(ExcValue)
              ELSE IF IsZero(self.factor) /\ rounded < 0 THEN Raise(ExcZeroDivision)
              ELSE IF DOMAIN self.names = {} THEN Raise(ExcType)
              ELSE pow_root(self, rounded,
                            IF IsZero(self.factor) THEN PyFloat(0, 1)
                            ELSE NumRoot(self.factor, rounded),
                            [i \in 1..NDims |-> FloorDiv(self.powers[i], rounded)])
         ELSE Raise(ExcIllegalExponent)
    ELSE Raise(ExcOnlyInteger)

\* line 186
pow_inverse(self, inv_exp) == pow_rounded(self, inv_exp, RoundHalfUp(inv_exp))

\* the branch of __pow__ for a float exponent (lines 184-205)
pow_float(self, other) ==
    IF IsZero(other) THEN Raise(ExcZeroDivision)
    ELSE pow_inverse(self, NumDiv(PyFloat(1, 1), other))

\* the branch of __pow__ for an int exponent k (lines 181-183)
pow_int(self, k) ==
    IF IsZero(self.factor) /\ k < 0 THEN Raise(ExcZeroDivision)
    ELSE Return(UnitVal(PhysicalUnit(NDMul(self.names, k),
                        NumPowInt(self.factor, k),
                        [i \in 1..NDims |-> self.powers[i] * k],
                        PyInt(0), "", "")))

\* PhysicalUnit.__pow__: self a unit, other any value
__pow__(self, other) ==
    IF ~pow_offset_ok(self) THEN Raise(ExcPowOffset)
    ELSE IF IsNumber(other) /\ IsInt(other.num) THEN pow_int(self, IntVal(other.num))
    ELSE IF IsNumber(other) THEN pow_float(self, other.num)
    ELSE Raise(ExcOnlyInteger)

\* PhysicalUnit.conversion_factor_to
conversion_factor_to(self, other) ==
    IF self.powers # other.powers THEN Raise(ExcIncompatible)
    ELSE IF ~NumEq(self.offset, other.offset) /\ ~NumEq(self.factor, other.factor)
    THEN Raise(ExcNotSimpleFactor)
    ELSE IF IsZero(other.factor) THEN Raise(ExcZeroDivision)
    ELSE Return(NumVal(NumDiv(self.factor, other.factor)))

TupleVal(factor, offset) == [t |-> "tuple", factor |-> factor, offset |-> offset]

\* the offset of the conversion tuple (line 238)
tuple_offset(self, other) ==
    NumSub(self.offset, NumDiv(NumMul(other.offset, other.factor), self.factor))

\* PhysicalUnit.conversion_tuple_to
conversion_tuple_to(self, other) ==
    IF self.powers # other.powers THEN Raise(ExcIncompatible)
    ELSE IF IsZero(other.factor) \/ IsZero(self.factor) THEN Raise(ExcZeroDivision)
    ELSE Return(TupleVal(NumDiv(self.factor, other.factor), tuple_offset(self, other)))

\* line 33, r the result of conversion_tuple_to
convert_by(value, r) ==
    IF r.exc # NoExc THEN r
    ELSE Return(NumVal(NumMul(NumAdd(value, r.val.offset), r.val.factor)))

\* convertValue, for a value that is a number
convertValue(value, src_unit, target_unit) ==
    convert_by(value, conversion_tuple_to(src_unit, target_unit))

\* PhysicalUnit.is_dimensionless: not (p1 or p2 or ... or p9)
is_dimensionless(self) == ~(\E i \in 1..NDims : self.powers[i] # 0)

RECURSIVE SumSeq(_)
SumSeq(xs) == IF xs = <<>> THEN 0 ELSE Head(xs) + SumSeq(Tail(xs))

\* PhysicalUnit.is_angle: powers[7] == 1 and the sum of the powers is 1
is_angle(self) == self.powers[8] = 1 /\ SumSeq(self.powers) = 1

\* one key of names with its power, as lines 82-89 write it after the sign
NamePower(unit, power) ==
    unit \o (IF power > 1 THEN <<"*", "*">> \o StrNum(PyInt(power)) ELSE <<>>)

\* PhysicalUnit.name, the keys of names visited in the order keys
RECURSIVE NameNum(_, _)
NameNum(names, keys) ==
    IF keys = <<>> THEN <<>>
    ELSE (IF names[Head(keys)] > 0
          THEN <<"*">> \o NamePower(Head(keys), names[Head(keys)])
          ELSE <<>>) \o NameNum(names, Tail(keys))

RECURSIVE NameDenom(_, _)
NameDenom(names, keys) ==
    IF keys = <<>> THEN <<>>
    ELSE (IF names[Head(keys)] < 0
          THEN <<"/">> \o NamePower(Head(keys), -names[Head(keys)])
          ELSE <<>>) \o NameDenom(names, Tail(keys))

\* lines 90-94
name_of(num, denom) == (IF Len(num) = 0 THEN <<"1">> ELSE Tail(num)) \o denom

name(self, keys) == name_of(NameNum(self.names, keys), NameDenom(self.names, keys))

\* the two bytes of the micro sign and of the degree sign in the UTF-8 source
MicroSign == <<"<C2>", "<B5>">>
DegreeSign == <<"<C2>", "<B0>">>

\* PhysicalUnit.__str__
__str__(self, keys) ==
    Replace(Replace(Replace(Strip(name(self, keys)), <<"*", "*">>, <<"^">>),
                    <<"m", "u">>, MicroSign), <<"d", "e", "g">>, DegreeSign)

\* the orders in which a dictionary may hand out its keys
KeyOrders(nd) ==
    {o \in [1..Cardinality(DOMAIN nd) -> DOMAIN nd] : \A i, j \in DOMAIN o : i # j => o[i] # o[j]}

-----------------------------------------------------------------------------
(* eval(text, unit_table): Python 2's tokenizer and expression grammar, for   *)
(* names, numbers, strings, the operators ** * / + - ^, parentheses,          *)
(* attribute references and calls.  Any other character is not part of an     *)
(* expression and gives a SyntaxError.                                        *)

Tok(t, txt, num) == [t |-> t, s |-> txt, num |-> num]

\* the num field of a token or of a tree that is not a number
PyZero == Num("int", 0, 1, 0, 0, 1)

TokError == Tok("ERROR", <<>>, PyZero)

\* the first position from i on whose character does not satisfy the class
RECURSIVE SkipDigits(_, _)
SkipDigits(s, i) == IF i <= Len(s) /\ IsDigit(s[i]) THEN SkipDigits(s, i + 1) ELSE i

RECURSIVE SkipIdChars(_, _)
SkipIdChars(s, i) == IF i <= Len(s) /\ IsIdChar(s[i]) THEN SkipIdChars(s, i + 1) ELSE i

RECURSIVE FindChar(_, _, _)
FindChar(s, i, c) == IF i > Len(s) \/ s[i] = c THEN i ELSE FindChar(s, i + 1, c)

RECURSIVE OctalVal(_)
OctalVal(ds) ==
    IF ds = <<>> THEN 0
    ELSE 8 * OctalVal(SubSeq(ds, 1, Len(ds) - 1)) + DigitVal(ds[Len(ds)])

HasSign(s, k) == k + 1 <= Len(s) /\ s[k + 1] \in {"+", "-"}

ExpSign(s, k) == IF HasSign(s, k) /\ s[k + 1] = "-" THEN -1 ELSE 1

ExpStart(s, k) == IF HasSign(s, k) THEN k + 2 ELSE k + 1

\* the exponent at k with its digits in es..ee-1: <<is there one, its value, the
\* position after it>>
ExpFromTo(s, k, es, ee) ==
    IF ee > es THEN <<TRUE, ExpSign(s, k) * DigitsVal(SubSeq(s, es, ee - 1)), ee>>
    ELSE <<FALSE, 0, k>>

ExpFrom(s, k, es) == ExpFromTo(s, k, es, SkipDigits(s, es))

ScanExponent(s, k) ==
    IF k <= Len(s) /\ s[k] \in {"e", "E"} THEN ExpFrom(s, k, ExpStart(s, k))
    ELSE <<FALSE, 0, k>>

\* the token of the integer part ip, the fraction fp and the exponent x
NumberToken(s, ip, fp, dot, x) ==
    IF x[3] <= Len(s) /\ IsIdChar(s[x[3]]) THEN <<TokError, x[3]>>
    ELSE IF dot \/ x[1]
    THEN <<Tok("NUMBER", <<>>, MkNum("float", DigitsVal(ip \o fp), 1, x[2] - Len(fp), 0, 1)), x[3]>>
    ELSE IF Len(ip) > 1 /\ ip[1] = "0"
    THEN IF \A n \in 1..Len(ip) : DigitVal(ip[n]) < 8
         THEN <<Tok("NUMBER", <<>>, PyInt(OctalVal(ip))), x[3]>>
         ELSE <<TokError, x[3]>>
    ELSE <<Tok("NUMBER", <<>>, PyInt(DigitsVal(ip))), x[3]>>

\* the digits before the point end at j - 1, those after it at k - 1
ScanParts(s, i, j, dot, k) ==
    NumberToken(s, SubSeq(s, i, j - 1), IF dot THEN SubSeq(s, j + 1, k - 1) ELSE <<>>,
                dot, ScanExponent(s, k))

ScanFraction(s, i, j, dot) == ScanParts(s, i, j, dot, IF dot THEN SkipDigits(s, j + 1) ELSE j)

ScanPoint(s, i, j) == ScanFraction(s, i, j, j <= Len(s) /\ s[j] = ".")

\* the number token starting at i: <<token, next position>>
ScanNumber(s, i) == ScanPoint(s, i, SkipDigits(s, i))

OpChars == {"*", "/", "+", "-", "^", "(", ")", ".", ","}

RECURSIVE TokenizeFrom(_, _)

\* the name in i..j-1
NameToken(s, i, j) == <<Tok("NAME", SubSeq(s, i, j - 1), PyZero)>> \o TokenizeFrom(s, j)

\* the number ScanNumber has found
AfterNumber(s, r) ==
    IF r[1].t = "ERROR" THEN <<TokError>> ELSE <<r[1]>> \o TokenizeFrom(s, r[2])

\* the string that starts at i, its closing quote at j
StringToken(s, i, j) ==
    IF j > Len(s) THEN <<TokError>>
    ELSE <<Tok("STRING", SubSeq(s, i + 1, j - 1), PyZero)>> \o TokenizeFrom(s, j + 1)

TokenizeFrom(s, i) ==
    IF i > Len(s) THEN <<>>
    ELSE IF IsSpace(s[i]) THEN TokenizeFrom(s, i + 1)
    ELSE IF IsIdStart(s[i]) THEN NameToken(s, i, SkipIdChars(s, i))
    ELSE IF IsDigit(s[i]) \/ (s[i] = "." /\ i < Len(s) /\ IsDigit(s[i + 1]))
    THEN AfterNumber(s, ScanNumber(s, i))
    ELSE IF s[i] \in {"'", "\""} THEN StringToken(s, i, FindChar(s, i + 1, s[i]))
    ELSE IF StartsAt(s, i, <<"*", "*">>)
    THEN <<Tok("OP", <<"*", "*">>, PyZero)>> \o TokenizeFrom(s, i + 2)
    ELSE IF s[i] \in OpChars
    THEN <<Tok("OP", <<s[i]>>, PyZero)>> \o TokenizeFrom(s, i + 1)
    ELSE <<TokError>>

Tokenize(s) == TokenizeFrom(s, 1)

\* Syntax trees
Node(t, txt, num, kids) == [t |-> t, s |-> txt, num |-> num, kids |-> kids]

NoNode == Node("None", <<>>, PyZero, <<>>)

POk(ast, pos) == [ok |-> TRUE, ast |-> ast, pos |-> pos]

PFail == [ok |-> FALSE, ast |-> NoNode, pos |-> 0]

IsOp(toks, pos, op) == pos <= Len(toks) /\ toks[pos].t = "OP" /\ toks[pos].s = op

RECURSIVE ParseExpr(_, _)
RECURSIVE ParseXorRest(_, _, _)
RECURSIVE ParseArith(_, _)
RECURSIVE ParseArithRest(_, _, _)
RECURSIVE ParseTerm(_, _)
RECURSIVE ParseTermRest(_, _, _)
RECURSIVE ParseFactor(_, _)
RECURSIVE ParsePower(_, _)
RECURSIVE ParseTrailers(_, _, _)
RECURSIVE ParseArgs(_, _, _)
RECURSIVE ParseAtom(_, _)

\* '(' expr ')', expr parsed as r
Parenthesized(toks, r) ==
    IF r.ok /\ IsOp(toks, r.pos, <<")">>) THEN POk(r.ast, r.pos + 1) ELSE PFail

\* atom: NAME | NUMBER | STRING | '(' expr ')'
ParseAtom(toks, pos) ==
    IF pos > Len(toks) THEN PFail
    ELSE IF toks[pos].t = "NAME" THEN POk(Node("Name", toks[pos].s, PyZero, <<>>), pos + 1)
    ELSE IF toks[pos].t = "NUMBER" THEN POk(Node("Num", <<>>, toks[pos].num, <<>>), pos + 1)
    ELSE IF toks[pos].t = "STRING" THEN POk(Node("Str", toks[pos].s, PyZero, <<>>), pos + 1)
    ELSE IF IsOp(toks, pos, <<"(">>) THEN Parenthesized(toks, ParseExpr(toks, pos + 1))
    ELSE PFail

\* the argument parsed as r, the arguments before it in args
ArgsAfter(toks, args, r) ==
    IF ~r.ok THEN PFail
    ELSE IF IsOp(toks, r.pos, <<",">>) THEN ParseArgs(toks, r.pos + 1, args \o <<r.ast>>)
    ELSE IF IsOp(toks, r.pos, <<")">>)
    THEN POk(Node("Args", <<>>, PyZero, args \o <<r.ast>>), r.pos + 1)
    ELSE PFail

\* arglist: expr (',' expr)*, the arguments so far in args
ParseArgs(toks, pos, args) == ArgsAfter(toks, args, ParseExpr(toks, pos))

\* the call of left, its arguments parsed as r
CallAfter(toks, left, r) ==
    IF r.ok THEN ParseTrailers(toks, r.pos, Node("Call", <<>>, PyZero, <<left>> \o r.ast.kids))
    ELSE PFail

\* trailer*: '.' NAME | '(' [arglist] ')'
ParseTrailers(toks, pos, left) ==
    IF IsOp(toks, pos, <<".">>)
    THEN IF pos + 1 <= Len(toks) /\ toks[pos + 1].t = "NAME"
         THEN ParseTrailers(toks, pos + 2, Node("Attribute", toks[pos + 1].s, PyZero, <<left>>))
         ELSE PFail
    ELSE IF IsOp(toks, pos, <<"(">>)
    THEN IF IsOp(toks, pos + 1, <<")">>)
         THEN ParseTrailers(toks, pos + 2, Node("Call", <<>>, PyZero, <<left>>))
         ELSE CallAfter(toks, left, ParseArgs(toks, pos + 1, <<>>))
    ELSE POk(left, pos)

\* the tree of the operator op, its last operand parsed as f
Joined(t, op, operands, f) ==
    IF f.ok THEN POk(Node(t, op, PyZero, operands \o <<f.ast>>), f.pos) ELSE PFail

PowerAfterTrailers(toks, t) ==
    IF ~t.ok THEN PFail
    ELSE IF IsOp(toks, t.pos, <<"*", "*">>)
    THEN Joined("BinOp", <<"*", "*">>, <<t.ast>>, ParseFactor(toks, t.pos + 1))
    ELSE t

PowerAfterAtom(toks, a) ==
    IF ~a.ok THEN PFail ELSE PowerAfterTrailers(toks, ParseTrailers(toks, a.pos, a.ast))

\* power: atom trailer* ['**' factor]
ParsePower(toks, pos) == PowerAfterAtom(toks, ParseAtom(toks, pos))

\* factor: ('+' | '-') factor | power
ParseFactor(toks, pos) ==
    IF IsOp(toks, pos, <<"-">>) \/ IsOp(toks, pos, <<"+">>)
    THEN Joined("UnaryOp", toks[pos].s, <<>>, ParseFactor(toks, pos + 1))
    ELSE ParsePower(toks, pos)

TermRestAfter(toks, f) == IF f.ok THEN ParseTermRest(toks, f.pos, f.ast) ELSE PFail

\* term: factor (('*' | '/') factor)*
ParseTermRest(toks, pos, left) ==
    IF IsOp(toks, pos, <<"*">>) \/ IsOp(toks, pos, <<"/">>)
    THEN TermRestAfter(toks, Joined("BinOp", toks[pos].s, <<left>>, ParseFactor(toks, pos + 1)))
    ELSE POk(left, pos)

ParseTerm(toks, pos) == TermRestAfter(toks, ParseFactor(toks, pos))

ArithRestAfter(toks, f) == IF f.ok THEN ParseArithRest(toks, f.pos, f.ast) ELSE PFail

\* arith_expr: term (('+' | '-') term)*
ParseArithRest(toks, pos, left) ==
    IF IsOp(toks, pos, <<"+">>) \/ IsOp(toks, pos, <<"-">>)
    THEN ArithRestAfter(toks, Joined("BinOp", toks[pos].s, <<left>>, ParseTerm(toks, pos + 1)))
    ELSE POk(left, pos)

ParseArith(toks, pos) == ArithRestAfter(toks, ParseTerm(toks, pos))

XorRestAfter(toks, f) == IF f.ok THEN ParseXorRest(toks, f.pos, f.ast) ELSE PFail

\* xor_expr: arith_expr ('^' arith_expr)*
ParseXorRest(toks, pos, left) ==
    IF IsOp(toks, pos, <<"^">>)
    THEN XorRestAfter(toks, Joined("BinOp", <<"^">>, <<left>>, ParseArith(toks, pos + 1)))
    ELSE POk(left, pos)

ParseExpr(toks, pos) == XorRestAfter(toks, ParseArith(toks, pos))

\* the tree r must end where the tokens end
Complete(toks, r) == IF r.ok /\ r.pos = Len(toks) + 1 THEN r ELSE PFail

CompileTokens(toks) ==
    IF \E i \in 1..Len(toks) : toks[i].t = "ERROR" THEN PFail
    ELSE Complete(toks, ParseExpr(toks, 1))

\* compile(text, '<string>', 'eval'): the tree, or ok = FALSE for a SyntaxError
Compile(text) == CompileTokens(Tokenize(text))

-----------------------------------------------------------------------------
(* Evaluation.  A unit value is either an object of the heap (ref > 0: an    *)
(* object unit_table holds, which every holder of the reference sees change) *)
(* or a unit the evaluation has just built (ref = 0).                        *)

RefVal(id) == [t |-> "unit", ref |-> id]
StrV(txt) == [t |-> "str", s |-> txt]
BuiltinVal(nm) == [t |-> "builtin", s |-> nm]
DictVal == [t |-> "dict"]
ObjectVal == [t |-> "object"]
MethodVal(attr, self) == [t |-> "method", s |-> attr, self |-> self]

\* the object a unit value stands for
Obj(v, heap) == IF v.ref > 0 THEN heap[v.ref] ELSE v.u

AsOperand(v, heap) == IF isPhysicalUnit(v) THEN UnitVal(Obj(v, heap)) ELSE v

BuiltinsKey == <<"_", "_", "b", "u", "i", "l", "t", "i", "n", "s", "_", "_">>

\* names of Python 2's __builtin__ module that the model knows
BuiltinNames == {<<"a", "b", "s">>, <<"l", "e", "n">>}

\* the attributes of a PhysicalUnit that are neither factor, offset nor set_name
OtherUnitAttrs == {<<"n", "a", "m", "e", "s">>, <<"p", "o", "w", "e", "r", "s">>, <<"p", "r", "e", "f", "i", "x", "e", "d">>, <<"b", "a", "s", "e", "u", "n", "i", "t">>, <<"c", "o", "m", "m", "e", "n", "t">>, <<"u", "r", "l">>, <<"n", "a", "m", "e">>}

\* a global name: unit_table first, then the builtins eval has put under it
LookupName(nm, table) ==
    IF nm \in DOMAIN table THEN Return(table[nm])
    ELSE IF nm = BuiltinsKey THEN Return(DictVal)
    ELSE IF nm \in BuiltinNames THEN Return(BuiltinVal(nm))
    ELSE Raise(ExcNameError)

RECURSIVE XorNat(_, _)
XorNat(a, b) ==
    IF a = 0 /\ b = 0 THEN 0
    ELSE (((a % 2) + (b % 2)) % 2) + 2 * XorNat(a \div 2, b \div 2)

\* x ** (a/b), a/b in lowest terms and not zero
PowFraction(x, a, b) ==
    IF IsZero(x)
    THEN IF a < 0 THEN Raise(ExcZeroDivision) ELSE Return(NumVal(PyFloat(0, 1)))
    ELSE IF x.n < 0 /\ b # 1 THEN Raise(ExcValue)
    ELSE Return(NumVal(NumRoot(NumPowInt(x, a), b)))

PowReduced(x, a0, b0, g) == PowFraction(x, a0 \div g, b0 \div g)

PowRatio(x, a0, b0) == PowReduced(x, a0, b0, GCD(Abs(a0), b0))

\* x ** y on numbers; a float exponent is the fraction a/b it stands for
NumPow(x, y) ==
    IF IsInt(y)
    THEN IF IsZero(x) /\ IntVal(y) < 0 THEN Raise(ExcZeroDivision)
         ELSE Return(NumVal(NumPowInt(x, IntVal(y))))
    ELSE IF IsZero(y) THEN Return(NumVal(PyFloat(1, 1)))
    ELSE IF y.e >= 0 THEN PowRatio(x, y.n * IPow(10, y.e), y.d)
    ELSE PowRatio(x, y.n, y.d * IPow(10, -y.e))

ApplyBin(op, L, R) ==
    IF op = <<"*">>
    THEN IF isPhysicalUnit(L) THEN __mul__(L.u, R)
         ELSE IF isPhysicalUnit(R) THEN __mul__(R.u, L)
         ELSE IF IsNumber(L) /\ IsNumber(R) THEN Return(NumVal(NumMul(L.num, R.num)))
         ELSE Raise(ExcType)
    ELSE IF op = <<"/">>
    THEN IF isPhysicalUnit(L) THEN __div__(L.u, R)
         ELSE IF isPhysicalUnit(R) THEN __rdiv__(R.u, L)
         ELSE IF IsNumber(L) /\ IsNumber(R)
         THEN IF IsZero(R.num) THEN Raise(ExcZeroDivision)
              ELSE Return(NumVal(NumDiv(L.num, R.num)))
         ELSE Raise(ExcType)
    ELSE IF op = <<"*", "*">>
    THEN IF isPhysicalUnit(L) THEN __pow__(L.u, R)
         ELSE IF IsNumber(L) /\ IsNumber(R) THEN NumPow(L.num, R.num)
         ELSE Raise(ExcType)
    ELSE IF op = <<"+">>
    THEN IF IsNumber(L) /\ IsNumber(R) THEN Return(NumVal(NumAdd(L.num, R.num)))
         ELSE Raise(ExcType)
    ELSE IF op = <<"-">>
    THEN IF IsNumber(L) /\ IsNumber(R) THEN Return(NumVal(NumSub(L.num, R.num)))
         ELSE Raise(ExcType)
    ELSE IF IsNumber(L) /\ IsNumber(R) /\ IsInt(L.num) /\ IsInt(R.num)
            /\ L.num.n >= 0 /\ R.num.n >= 0
         THEN Return(NumVal(PyInt(XorNat(IntVal(L.num), IntVal(R.num)))))
         ELSE Raise(ExcType)

ApplyUnary(op, v) ==
    IF ~IsNumber(v) THEN Raise(ExcType)
    ELSE IF op = <<"-">> THEN Return(NumVal(NumNeg(v.num)))
    ELSE Return(v)

\* getattr(v, attr)
GetAttr(v, attr, heap) ==
    IF ~isPhysicalUnit(v) THEN Raise(ExcAttribute)
    ELSE IF attr = <<"f", "a", "c", "t", "o", "r">> THEN Return(NumVal(Obj(v, heap).factor))
    ELSE IF attr = <<"o", "f", "f", "s", "e", "t">> THEN Return(NumVal(Obj(v, heap).offset))
    ELSE IF attr = <<"s", "e", "t", "_", "n", "a", "m", "e">> THEN Return(MethodVal(attr, v))
    ELSE IF attr \in OtherUnitAttrs THEN Return(ObjectVal)
    ELSE Raise(ExcAttribute)

Ev(exc, val, heap) == [exc |-> exc, val |-> val, heap |-> heap]

\* the key a value makes in a dictionary of names
KeyOf(v) == IF v.t = "str" THEN v.s ELSE StrVal(v)

\* f(*args)
CallValue(f, args, heap) ==
    IF f.t = "method"
    THEN IF Len(args) # 1 THEN Ev(ExcType, NoneVal, heap)
         ELSE IF f.self.ref > 0
         THEN Ev(NoExc, NoneVal, [heap EXCEPT ![f.self.ref] = set_name(@, KeyOf(args[1]))])
         ELSE Ev(NoExc, NoneVal, heap)
    ELSE IF f.t = "builtin"
    THEN IF Len(args) # 1 THEN Ev(ExcType, NoneVal, heap)
         ELSE IF f.s = <<"a", "b", "s">> /\ IsNumber(args[1])
         THEN Ev(NoExc, NumVal(NumAbs(args[1].num)), heap)
         ELSE IF f.s = <<"l", "e", "n">> /\ args[1].t = "str"
         THEN Ev(NoExc, NumVal(PyInt(Len(args[1].s))), heap)
         ELSE Ev(ExcType, NoneVal, heap)
    ELSE Ev(ExcType, NoneVal, heap)

RECURSIVE Eval(_, _, _)
RECURSIVE EvalArgs(_, _, _, _)

\* the result r of an operation that leaves the objects as they are
WithHeap(r, heap) == Ev(r.exc, r.val, heap)

\* the argument evaluated as a, the arguments after it in kids
ArgsThen(kids, table, done, a) ==
    IF a.exc # NoExc THEN a ELSE EvalArgs(kids, table, a.heap, done \o <<a.val>>)

\* the arguments of a call, left to right: [exc, val (the values), heap]
EvalArgs(kids, table, heap, done) ==
    IF kids = <<>> THEN Ev(NoExc, done, heap)
    ELSE ArgsThen(Tail(kids), table, done, Eval(Head(kids), table, heap))

EvalUnary(op, a) ==
    IF a.exc # NoExc THEN a ELSE WithHeap(ApplyUnary(op, a.val), a.heap)

EvalBinOperands(op, a, b) ==
    IF b.exc # NoExc THEN b
    ELSE WithHeap(ApplyBin(op, AsOperand(a.val, b.heap), AsOperand(b.val, b.heap)), b.heap)

EvalBinRight(ast, table, a) ==
    IF a.exc # NoExc THEN a
    ELSE EvalBinOperands(ast.s, a, Eval(ast.kids[2], table, a.heap))

EvalAttribute(attr, a) ==
    IF a.exc # NoExc THEN a ELSE WithHeap(GetAttr(a.val, attr, a.heap), a.heap)

EvalCallArgs(f, args) ==
    IF args.exc # NoExc THEN args ELSE CallValue(f.val, args.val, args.heap)

EvalCall(ast, table, f) ==
    IF f.exc # NoExc THEN f
    ELSE EvalCallArgs(f, EvalArgs(Tail(ast.kids), table, f.heap, <<>>))

\* the value of a syntax tree: [exc, val, heap]
Eval(ast, table, heap) ==
    IF ast.t = "Name" THEN WithHeap(LookupName(ast.s, table), heap)
    ELSE IF ast.t = "Num" THEN Ev(NoExc, NumVal(ast.num), heap)
    ELSE IF ast.t = "Str" THEN Ev(NoExc, StrV(ast.s), heap)
    ELSE IF ast.t = "UnaryOp" THEN EvalUnary(ast.s, Eval(ast.kids[1], table, heap))
    ELSE IF ast.t = "BinOp" THEN EvalBinRight(ast, table, Eval(ast.kids[1], table, heap))
    ELSE IF ast.t = "Attribute" THEN EvalAttribute(ast.s, Eval(ast.kids[1], table, heap))
    ELSE EvalCall(ast, table, Eval(ast.kids[1], table, heap))

EvalCompiled(c, table, heap) ==
    IF ~c.ok THEN Ev(ExcSyntax, NoneVal, heap) ELSE Eval(c.ast, table, heap)

\* eval(text, unit_table) after the builtins are put into unit_table
PyEval(text, table, heap) == EvalCompiled(Compile(LStrip(text)), table, heap)

-----------------------------------------------------------------------------
(* The registry: unit_table maps a name to a value, heap holds the unit      *)
(* objects by identity.                                                      *)

EmptyTable == [k \in {} |-> NoneVal]

TableSet(table, key, v) ==
    [k \in DOMAIN table \cup {key} |-> IF k = key THEN v ELSE table[k]]

TableDel(table, keys) == [k \in DOMAIN table \ keys |-> table[k]]

ArgsKey == <<"_", "_", "a", "r", "g", "s", "_", "_">>

\* what eval does to its globals before it compiles the text
WithBuiltins(table) ==
    IF BuiltinsKey \in DOMAIN table THEN table ELSE TableSet(table, BuiltinsKey, DictVal)

\* for cruft in ['__builtins__', '__args__']: del unit_table[cruft]
DelCruft(table) == TableDel(table, {BuiltinsKey, ArgsKey})

Out(exc, val, table, heap) == [exc |-> exc, val |-> val, table |-> table, heap |-> heap]

\* the text findUnit evaluates (line 14)
NormalizeText(unit) ==
    Replace(Replace(Replace(Strip(unit), <<"^">>, <<"*", "*">>),
                    MicroSign, <<"m", "u">>), DegreeSign, <<"d", "e", "g">>)

\* what findUnit raises for an exception of eval: NameError alone is caught
findUnit_except(exc) == IF exc = ExcNameError THEN ExcUnknownUnit ELSE exc

\* lines 17-26 of findUnit, r the result of eval and t1 the table eval has left
findUnit_evaluated(r, t1) ==
    IF r.exc # NoExc THEN Out(findUnit_except(r.exc), NoneVal, t1, r.heap)
    ELSE IF ~isPhysicalUnit(r.val) THEN Out(ExcNotAUnit, NoneVal, DelCruft(t1), r.heap)
    ELSE Out(NoExc, r.val, DelCruft(t1), r.heap)

findUnit_eval(text, t1, heap) == findUnit_evaluated(PyEval(text, t1, heap), t1)

\* findUnit(unit): unit a text (a "str" value) or any other value
findUnit(unit, table, heap) ==
    IF unit.t = "str" THEN findUnit_eval(NormalizeText(unit.s), WithBuiltins(table), heap)
    ELSE IF ~isPhysicalUnit(unit) THEN Out(ExcNotAUnit, NoneVal, table, heap)
    ELSE Out(NoExc, unit, table, heap)

\* addUnit without the check of lines 276-277
addUnit_overwrites(nm, table) == FALSE

\* lines 276-277 of addUnit
addUnit_defined(nm, table) == nm \in DOMAIN table

\* line 295: unit_table[name] = newunit
addUnit_put(nm, newunit, obj, table, heap) ==
    IF newunit.ref > 0
    THEN Out(NoExc, StrV(nm), TableSet(table, nm, RefVal(newunit.ref)),
             [heap EXCEPT ![newunit.ref] = obj])
    ELSE Out(NoExc, StrV(nm), TableSet(table, nm, RefVal(Len(heap) + 1)),
             Append(heap, obj))

\* lines 289-292: the baseunit attribute of the new unit
addUnit_base(unit, prefixed, baseunit) ==
    IF prefixed
    THEN (IF isPhysicalUnit(baseunit) /\ baseunit.ref > 0
          THEN BaseRef(baseunit.ref) ELSE BaseNone)
    ELSE (IF unit.t = "str" THEN BaseText(unit.s) ELSE BaseSelf)

\* lines 287-296 of addUnit: newunit is named, described and stored
addUnit_store(nm, unit, newunit, comment, prefixed, baseunit, url, table, heap) ==
    IF ~isPhysicalUnit(newunit) THEN Out(ExcAttribute, NoneVal, table, heap)
    ELSE addUnit_put(nm, newunit,
                     [set_name(Obj(newunit, heap), nm) EXCEPT
                         !.comment = comment,
                         !.baseunit = addUnit_base(unit, prefixed, baseunit),
                         !.prefixed = prefixed, !.url = url],
                     table, heap)

\* lines 280-296, r the result of eval and t1 the table eval has left
addUnit_evaluated(nm, unit, r, comment, prefixed, baseunit, url, t1) ==
    IF r.exc # NoExc THEN Out(r.exc, NoneVal, t1, r.heap)
    ELSE addUnit_store(nm, unit, r.val, comment, prefixed, baseunit, url,
                       DelCruft(t1), r.heap)

addUnit_eval(nm, unit, comment, prefixed, baseunit, url, t1, heap) ==
    addUnit_evaluated(nm, unit, PyEval(unit.s, t1, heap), comment, prefixed, baseunit, url, t1)

\* addUnit(name, unit, comment, prefixed, baseunit, url)
addUnit(nm, unit, comment, prefixed, baseunit, url, table, heap) ==
    IF addUnit_defined(nm, table) THEN Out(ExcDuplicate, NoneVal, table, heap)
    ELSE IF unit.t = "str"
    THEN addUnit_eval(nm, unit, comment, prefixed, baseunit, url, WithBuiltins(table), heap)
    ELSE addUnit_store(nm, unit, unit, comment, prefixed, baseunit, url, table, heap)

_full_prefixes ==
    <<<<<<"Y">>, FloatE(1, 24)>>, <<<<"Z">>, FloatE(1, 21)>>, <<<<"E">>, FloatE(1, 18)>>,
      <<<<"P">>, FloatE(1, 15)>>, <<<<"T">>, FloatE(1, 12)>>, <<<<"G">>, FloatE(1, 9)>>,
      <<<<"M">>, FloatE(1, 6)>>, <<<<"k">>, FloatE(1, 3)>>, <<<<"h">>, FloatE(1, 2)>>,
      <<<<"d", "a">>, FloatE(1, 1)>>, <<<<"d">>, FloatE(1, -1)>>, <<<<"c">>, FloatE(1, -2)>>,
      <<<<"m">>, FloatE(1, -3)>>, <<<<"m", "u">>, FloatE(1, -6)>>, <<<<"n">>, FloatE(1, -9)>>,
      <<<<"p">>, FloatE(1, -12)>>, <<<<"f">>, FloatE(1, -15)>>, <<<<"a">>, FloatE(1, -18)>>,
      <<<<"z">>, FloatE(1, -21)>>, <<<<"y">>, FloatE(1, -24)>>>>

_engineering_prefixes ==
    <<<<<<"T">>, FloatE(1, 12)>>, <<<<"G">>, FloatE(1, 9)>>, <<<<"M">>, FloatE(1, 6)>>,
      <<<<"k">>, FloatE(1, 3)>>, <<<<"h">>, FloatE(1, 2)>>, <<<<"d", "a">>, FloatE(1, 1)>>,
      <<<<"d">>, FloatE(1, -1)>>, <<<<"c">>, FloatE(1, -2)>>, <<<<"m">>, FloatE(1, -3)>>,
      <<<<"m", "u">>, FloatE(1, -6)>>, <<<<"n">>, FloatE(1, -9)>>, <<<<"p">>, FloatE(1, -12)>>,
      <<<<"f">>, FloatE(1, -15)>>, <<<<"a">>, FloatE(1, -18)>>>>

\* addPrefixed without the test of line 313
addPrefixed_always(prefixedname, table) == TRUE

\* line 313 of addPrefixed: is the prefixed name still free
addPrefixed_absent(prefixedname, table) == prefixedname \notin DOMAIN table

RECURSIVE addPrefixed_loop(_, _, _, _, _)

\* after line 314: the loop goes on unless addUnit has raised
addPrefixed_added(unitname, prefixes, i, r) ==
    IF r.exc # NoExc THEN r
    ELSE addPrefixed_loop(unitname, prefixes, i + 1, r.table, r.heap)

\* line 314: addUnit(prefixedname, prefix[1]*unit, prefixed=True, baseunit=unit)
addPrefixed_add(unitname, prefixes, i, prefixedname, unit, prod, table, heap) ==
    IF prod.exc # NoExc THEN Out(prod.exc, NoneVal, table, heap)
    ELSE addPrefixed_added(unitname, prefixes, i,
                           addUnit(prefixedname, prod.val, "", TRUE, unit, "", table, heap))

\* lines 312-314 for one prefix
addPrefixed_prefix(unitname, prefixes, i, prefix, unit, table, heap) ==
    IF addPrefixed_absent(prefix[1] \o unitname, table)
    THEN addPrefixed_add(unitname, prefixes, i, prefix[1] \o unitname, unit,
                         ApplyBin(<<"*">>, NumVal(prefix[2]), AsOperand(unit, heap)),
                         table, heap)
    ELSE addPrefixed_loop(unitname, prefixes, i + 1, table, heap)

\* the loop of addPrefixed from the i-th prefix on
addPrefixed_loop(unitname, prefixes, i, table, heap) ==
    IF i > Len(prefixes) THEN Out(NoExc, NoneVal, table, heap)
    ELSE addPrefixed_prefix(unitname, prefixes, i, prefixes[i], table[unitname], table, heap)

\* addPrefixed(unitname, range)
addPrefixed(unitname, range, table, heap) ==
    LET prefixes == IF range = "engineering" THEN _engineering_prefixes ELSE _full_prefixes
    IN  IF unitname \notin DOMAIN table THEN Out(ExcKeyError, NoneVal, table, heap)
        ELSE addPrefixed_loop(unitname, prefixes, 1, table, heap)

\* the value of math.pi
PiNum == MkNum("float", 1, 1, 0, 1, 1)

PiKey == <<"p", "i">>

-----------------------------------------------------------------------------
(* The statements of the module body, lines 339-372, in source order *)

BasePowers(i) == [j \in 1..NDims |-> IF j = i THEN 1 ELSE 0]

StmAddUnit(line, nm, unit, comment, url) ==
    [op |-> "addUnit", line |-> line, name |-> nm, unit |-> unit,
     comment |-> comment, url |-> url, range |-> ""]

\* addPrefixed applied to the name the addUnit call of the same line returns
StmAddPrefixed(line, nm, range) ==
    [op |-> "addPrefixed", line |-> line, name |-> nm, unit |-> NoneVal,
     comment |-> "", url |-> "", range |-> range]

\* line 366 with the constant stored under another key
StmSetPi_misnamed(line) ==
    [op |-> "setitem", line |-> line, name |-> <<"P", "I">>, unit |-> NumVal(PiNum),
     comment |-> "", url |-> "", range |-> ""]

StmSetPi(line) ==
    [op |-> "setitem", line |-> line, name |-> PiKey, unit |-> NumVal(PiNum),
     comment |-> "", url |-> "", range |-> ""]

BootProgram ==
    <<StmAddUnit(339, <<"k", "g">>, UnitVal(PhysicalUnitNamed(<<"k", "g">>, PyInt(1), BasePowers(2), PyInt(0), "https://en.wikipedia.org/wiki/Kilogram", "Kilogram")), "", ""),
      StmAddUnit(340, <<"m">>, UnitVal(PhysicalUnitNamed(<<"m">>, PyFloat(1, 1), BasePowers(1), PyInt(0), "https://en.wikipedia.org/wiki/Metre", "Metre")), "", ""),
      StmAddPrefixed(340, <<"m">>, "engineering"),
      StmAddUnit(341, <<"g">>, UnitVal(PhysicalUnitNamed(<<"g">>, FloatE(1, -3), BasePowers(2), PyInt(0), "https://en.wikipedia.org/wiki/Kilogram", "Kilogram")), "", ""),
      StmAddPrefixed(341, <<"g">>, "engineering"),
      StmAddUnit(342, <<"s">>, UnitVal(PhysicalUnitNamed(<<"s">>, PyFloat(1, 1), BasePowers(3), PyInt(0), "https://en.wikipedia.org/wiki/Second", "Second")), "", ""),
      StmAddPrefixed(342, <<"s">>, "engineering"),
      StmAddUnit(343, <<"A">>, UnitVal(PhysicalUnitNamed(<<"A">>, PyFloat(1, 1), BasePowers(4), PyInt(0), "https://en.wikipedia.org/wiki/Ampere", "Ampere")), "", ""),
      StmAddPrefixed(343, <<"A">>, "engineering"),
      StmAddUnit(344, <<"K">>, UnitVal(PhysicalUnitNamed(<<"K">>, PyFloat(1, 1), BasePowers(5), PyInt(0), "https://en.wikipedia.org/wiki/Kelvin", "Kelvin")), "", ""),
      StmAddPrefixed(344, <<"K">>, "engineering"),
      StmAddUnit(345, <<"m", "o", "l">>, UnitVal(PhysicalUnitNamed(<<"m", "o", "l">>, PyFloat(1, 1), BasePowers(6), PyInt(0), "https://en.wikipedia.org/wiki/Mole_(unit)", "Mol")), "", ""),
      StmAddPrefixed(345, <<"m", "o", "l">>, "engineering"),
      StmAddUnit(346, <<"c", "d">>, UnitVal(PhysicalUnitNamed(<<"c", "d">>, PyFloat(1, 1), BasePowers(7), PyInt(0), "https://en.wikipedia.org/wiki/Candela", "Candela")), "", ""),
      StmAddPrefixed(346, <<"c", "d">>, "engineering"),
      StmAddUnit(347, <<"r", "a", "d">>, UnitVal(PhysicalUnitNamed(<<"r", "a", "d">>, PyFloat(1, 1), BasePowers(8), PyInt(0), "https://en.wikipedia.org/wiki/Radian", "Radian")), "", ""),
      StmAddPrefixed(347, <<"r", "a", "d">>, "engineering"),
      StmAddUnit(348, <<"s", "r">>, UnitVal(PhysicalUnitNamed(<<"s", "r">>, PyFloat(1, 1), BasePowers(9), PyInt(0), "https://en.wikipedia.org/wiki/Steradian", "Streradian")), "", ""),
      StmAddPrefixed(348, <<"s", "r">>, "engineering"),
      StmAddUnit(349, <<"H", "z">>, StrV(<<"1", "/", "s">>), "Hertz", "https://en.wikipedia.org/wiki/Hertz"),
      StmAddPrefixed(349, <<"H", "z">>, "engineering"),
      StmAddUnit(350, <<"N">>, StrV(<<"m", "*", "k", "g", "/", "s", "*", "*", "2">>), "Newton", "https://en.wikipedia.org/wiki/Newton_(unit)"),
      StmAddPrefixed(350, <<"N">>, "engineering"),
      StmAddUnit(351, <<"P", "a">>, StrV(<<"N", "/", "m", "*", "*", "2">>), "Pascal", "https://en.wikipedia.org/wiki/Pascal_(unit)"),
      StmAddPrefixed(351, <<"P", "a">>, "engineering"),
      StmAddUnit(352, <<"J">>, StrV(<<"N", "*", "m">>), "Joule", "https://en.wikipedia.org/wiki/Joule"),
      StmAddPrefixed(352, <<"J">>, "engineering"),
      StmAddUnit(353, <<"W">>, StrV(<<"J", "/", "s">>), "Watt", "https://en.wikipedia.org/wiki/Watt"),
      StmAddPrefixed(353, <<"W">>, "engineering"),
      StmAddUnit(354, <<"C">>, StrV(<<"s", "*", "A">>), "Coulomb", "https://en.wikipedia.org/wiki/Coulomb"),
      StmAddPrefixed(354, <<"C">>, "engineering"),
      StmAddUnit(355, <<"V">>, StrV(<<"W", "/", "A">>), "Volt", "https://en.wikipedia.org/wiki/Volt"),
      StmAddPrefixed(355, <<"V">>, "engineering"),
      StmAddUnit(356, <<"F">>, StrV(<<"C", "/", "V">>), "Farad", "https://en.wikipedia.org/wiki/Farad"),
      StmAddPrefixed(356, <<"F">>, "engineering"),
      StmAddUnit(357, <<"O", "h", "m">>, StrV(<<"V", "/", "A">>), "Ohm", "https://en.wikipedia.org/wiki/Ohm_(unit)"),
      StmAddPrefixed(357, <<"O", "h", "m">>, "engineering"),
      StmAddUnit(358, <<"S">>, StrV(<<"A", "/", "V">>), "Siemens", "https://en.wikipedia.org/wiki/Siemens_(unit)"),
      StmAddPrefixed(358, <<"S">>, "engineering"),
      StmAddUnit(359, <<"W", "b">>, StrV(<<"V", "*", "s">>), "Weber", "https://en.wikipedia.org/wiki/Weber_(unit)"),
      StmAddPrefixed(359, <<"W", "b">>, "engineering"),
      StmAddUnit(360, <<"T">>, StrV(<<"W", "b", "/", "m", "*", "*", "2">>), "Tesla", "https://en.wikipedia.org/wiki/Tesla_(unit)"),
      StmAddPrefixed(360, <<"T">>, "engineering"),
      StmAddUnit(361, <<"H">>, StrV(<<"W", "b", "/", "A">>), "Henry", "https://en.wikipedia.org/wiki/Henry_(unit)"),
      StmAddPrefixed(361, <<"H">>, "engineering"),
      StmAddUnit(362, <<"l", "m">>, StrV(<<"c", "d", "*", "s", "r">>), "Lumen", "https://en.wikipedia.org/wiki/Lumen_(unit)"),
      StmAddPrefixed(362, <<"l", "m">>, "engineering"),
      StmAddUnit(363, <<"l", "x">>, StrV(<<"l", "m", "/", "m", "*", "*", "2">>), "Lux", "https://en.wikipedia.org/wiki/Lux"),
      StmAddPrefixed(363, <<"l", "x">>, "engineering"),
      StmSetPi(366),
      StmAddUnit(367, <<"d", "e", "g">>, StrV(<<"p", "i", "*", "r", "a", "d", "/", "1", "8", "0">>), "Degree", "http://en.wikipedia.org/wiki/Degree_%28angle%29"),
      StmAddUnit(368, <<"a", "r", "c", "m", "i", "n">>, StrV(<<"p", "i", "*", "r", "a", "d", "/", "1", "8", "0", "/", "6", "0">>), "minutes of arc", ""),
      StmAddUnit(369, <<"a", "r", "c", "s", "e", "c">>, StrV(<<"p", "i", "*", "r", "a", "d", "/", "1", "8", "0", "/", "3", "6", "0", "0">>), "seconds of arc", ""),
      StmAddUnit(371, <<"m", "i", "n">>, StrV(<<"6", "0", "*", "s">>), "Minute", "https://en.wikipedia.org/wiki/Hour"),
      StmAddUnit(372, <<"h">>, StrV(<<"6", "0", "*", "6", "0", "*", "s">>), "Hour", "https://en.wikipedia.org/wiki/Hour")>>

\* one statement of the module body
RunStatement(stm, table, heap) ==
    IF stm.op = "addUnit"
    THEN addUnit(stm.name, stm.unit, stm.comment, FALSE, NoneVal, stm.url, table, heap)
    ELSE IF stm.op = "addPrefixed" THEN addPrefixed(stm.name, stm.range, table, heap)
    ELSE Out(NoExc, NoneVal, TableSet(table, stm.name, stm.unit), heap)

-----------------------------------------------------------------------------
(* The state *)

VARIABLES unit_table, heap, pc, nops, last, opnd

vars == <<unit_table, heap, pc, nops, last, opnd>>

\* the number of calls made after the module body has run
MaxOps == 2

BootDone == Len(BootProgram) + 1

\* pc of an import that an exception has ended
BootFailed == BootDone + 1

\* what the last call was and how it ended
\* again: the call repeats the call before it, argument for argument
Last(op, nm, arg, range, exc, val) ==
    [op |-> op, name |-> nm, arg |-> arg, range |-> range, exc |-> exc, val |-> val,
     again |-> last.op = op /\ last.name = nm /\ last.arg = arg /\ last.range = range]

NoOperands == [a |-> NoneVal, b |-> NoneVal, x |-> NoneVal, keys |-> <<>>]

Init ==
    /\ unit_table = EmptyTable
    /\ heap = <<>>
    /\ pc = 1
    /\ nops = 0
    /\ last = [op |-> "import", name |-> <<>>, arg |-> NoneVal, range |-> "",
               exc |-> NoExc, val |-> NoneVal, again |-> FALSE]
    /\ opnd = NoOperands

\* a call has ended as r: the registry it leaves and the record of the call
Ended(op, nm, arg, range, r) ==
    /\ unit_table' = r.table
    /\ heap' = r.heap
    /\ last' = Last(op, nm, arg, range, r.exc, r.val)

\* the statement stm has ended as r; an exception ends the import
Ran(stm, r) ==
    /\ Ended(stm.op, stm.name, stm.unit, stm.range, r)
    /\ pc' = IF r.exc = NoExc THEN pc + 1 ELSE BootFailed

Run(stm) == Ran(stm, RunStatement(stm, unit_table, heap))

\* the next statement of the module body
BootStep ==
    /\ pc \in 1..Len(BootProgram)
    /\ Run(BootProgram[pc])
    /\ UNCHANGED <<nops, opnd>>

Live == pc = BootDone /\ nops < MaxOps

\* names a caller registers or expands
LiveNames == {<<"g">>, <<"x">>, <<"d", "e", "g", "C">>, <<"p", "i">>}

\* texts a caller has evaluated
LiveTexts ==
    {<<"m">>,
     <<"m", "*", "k", "g", "/", "s", "*", "*", "2">>,
     <<"Q">>,
     <<"x">>,
     <<"a", "b", "s">>,
     <<"m", ".", "s", "e", "t", "_", "n", "a", "m", "e", "(", "'", "z", "z", "'", ")">>,
     <<"d", "e", "g", "C", "*", "m">>}

\* unit objects a caller builds: a plain unit and one with an offset
LiveObjects ==
    {PhysicalUnitNamed(<<"u">>, PyFloat(2, 1), BasePowers(1), PyInt(0), "", ""),
     PhysicalUnitNamed(<<"d", "e", "g", "C">>, PyFloat(1, 1), BasePowers(5), PyFloat(27315, 100), "", "")}

\* addUnit(name, text)
AddUnitText ==
    /\ Live
    /\ \E nm \in LiveNames, text \in LiveTexts :
        Ended("addUnit", nm, StrV(text), "",
              addUnit(nm, StrV(text), "", FALSE, NoneVal, "", unit_table, heap))
    /\ nops' = nops + 1
    /\ UNCHANGED <<pc, opnd>>

\* addUnit(name, PhysicalUnit(...))
AddUnitObject ==
    /\ Live
    /\ \E nm \in LiveNames, u \in LiveObjects :
        Ended("addUnit", nm, UnitVal(u), "",
              addUnit(nm, UnitVal(u), "", FALSE, NoneVal, "", unit_table, heap))
    /\ nops' = nops + 1
    /\ UNCHANGED <<pc, opnd>>

\* addUnit(name, unit_table[key]): a caller hands back an object of the registry
AddUnitRegistered ==
    /\ Live
    /\ \E nm \in LiveNames, key \in DOMAIN unit_table \cap LiveNames :
        Ended("addUnit", nm, unit_table[key], "",
              addUnit(nm, unit_table[key], "", FALSE, NoneVal, "", unit_table, heap))
    /\ nops' = nops + 1
    /\ UNCHANGED <<pc, opnd>>

\* addPrefixed(unitname, range)
AddPrefixed ==
    /\ Live
    /\ \E nm \in LiveNames, range \in {"engineering", "full"} :
        Ended("addPrefixed", nm, NoneVal, range, addPrefixed(nm, range, unit_table, heap))
    /\ nops' = nops + 1
    /\ UNCHANGED <<pc, opnd>>

\* findUnit(text), the resolve of the interface
Resolve ==
    /\ Live
    /\ \E text \in LiveTexts :
        Ended("resolve", <<>>, StrV(text), "", findUnit(StrV(text), unit_table, heap))
    /\ nops' = nops + 1
    /\ UNCHANGED <<pc, opnd>>

Next ==
    \/ BootStep
    \/ AddUnitText
    \/ AddUnitObject
    \/ AddUnitRegistered
    \/ AddPrefixed
    \/ Resolve

Spec == Init /\ [][Next]_vars

-----------------------------------------------------------------------------
(* The registry's contract: addUnit, the module body, findUnit, addPrefixed *)

\* the names a syntax tree looks up
RECURSIVE NamesOf(_)
NamesOf(ast) ==
    IF ast.t = "Name" THEN {ast.s}
    ELSE UNION {NamesOf(ast.kids[i]) : i \in 1..Len(ast.kids)}

\* the identifiers of a text, none for a text that does not compile
Identifiers(text) == LET c == Compile(LStrip(text)) IN IF c.ok THEN NamesOf(c.ast) ELSE {}

\* does the tree hold an attribute reference or a call
RECURSIVE HasTrailer(_)
HasTrailer(ast) ==
    \/ ast.t \in {"Attribute", "Call"}
    \/ \E i \in 1..Len(ast.kids) : HasTrailer(ast.kids[i])

UsesAttributeOrCall(text) == LET c == Compile(LStrip(text)) IN c.ok /\ HasTrailer(c.ast)

\* the step is a call of addUnit that gets past the check of the name
AddUnitOfFreeName == last'.op = "addUnit" /\ last'.name \notin DOMAIN unit_table

\* the step evaluates a text: findUnit(text), or addUnit(name, text) with a free name
EvaluatesText ==
    /\ last'.arg.t = "str"
    /\ last'.op = "resolve" \/ AddUnitOfFreeName

\* the text the step evaluates
EvaluatedText == IF last'.op = "resolve" THEN NormalizeText(last'.arg.s) ELSE last'.arg.s

\* C1: addUnit called with a name that is already a key of unit_table fails
\* with DuplicateUnit (the KeyError of line 277), and the registry is as it
\* was before the call: no key added or removed, no value replaced, no
\* registered object modified.
C1_DuplicateRejected ==
    [][(last'.op = "addUnit" /\ last'.name \in DOMAIN unit_table)
        => (/\ last'.exc = ExcDuplicate
            /\ unit_table' = unit_table
            /\ heap' = heap)]_vars

\* addUnit("g", ...) after the import has failed with DuplicateUnit
C1_Witness ==
    /\ pc = BootDone
    /\ last.op = "addUnit"
    /\ last.name = <<"g">>
    /\ last.exc = ExcDuplicate

\* C2: the module body, run in source order on an empty unit_table, raises
\* nothing: before every addUnit statement its name is not yet a key and
\* every identifier of its defining text is a key (pi before deg, arcmin and
\* arcsec), and before every addPrefixed statement its name is a key.
C2_BootstrapCompletes ==
    /\ pc # BootFailed
    /\ pc \in 1..Len(BootProgram) =>
        LET stm == BootProgram[pc]
        IN  /\ stm.op = "addUnit" =>
                /\ stm.name \notin DOMAIN unit_table
                /\ stm.unit.t = "str" => Identifiers(stm.unit.s) \subseteq DOMAIN unit_table
            /\ stm.op = "addPrefixed" => stm.name \in DOMAIN unit_table

\* the last statement, addUnit('h', '60*60*s'), has run without an exception
C2_Witness ==
    /\ pc = BootDone
    /\ nops = 0
    /\ last.op = "addUnit"
    /\ last.name = <<"h">>
    /\ last.exc = NoExc
    /\ <<"d", "e", "g">> \in DOMAIN unit_table

\* C3: a text with an identifier that is not a key of unit_table makes
\* findUnit(text) and addUnit(name, text) fail with UnknownUnit and with no
\* other error, and no unit is returned or registered.
C3_UnknownIdentifier ==
    [][(EvaluatesText /\ ~(Identifiers(EvaluatedText) \subseteq DOMAIN unit_table))
        => (/\ last'.exc = ExcUnknownUnit
            /\ \A k \in DOMAIN unit_table' \ DOMAIN unit_table :
                   ~isPhysicalUnit(unit_table'[k]))]_vars

\* C4: a text with an attribute reference or a call is rejected by
\* findUnit(text) and addUnit(name, text) without being executed: the call
\* fails and unit_table and the registered objects are as they were.
C4_NoAttributeOrCall ==
    [][(EvaluatesText /\ UsesAttributeOrCall(EvaluatedText))
        => (/\ last'.exc # NoExc
            /\ unit_table' = unit_table
            /\ heap' = heap)]_vars

\* the prefixed names addPrefixed(unitname, range) asks for
PrefixedNames(unitname, range) ==
    LET prefixes == IF range = "engineering" THEN _engineering_prefixes ELSE _full_prefixes
    IN  {prefixes[i][1] \o unitname : i \in 1..Len(prefixes)}

\* C9: addPrefixed on a registered name never fails with DuplicateUnit: every
\* entry present before the call is untouched (its value and its object, as
\* kg when g is expanded), the keys it adds are prefixed names, all of them
\* present after a call that returns, and a call that repeats the call
\* before it leaves unit_table and the objects unchanged.
C9_AddPrefixedSkips ==
    [][(last'.op = "addPrefixed" /\ last'.name \in DOMAIN unit_table)
        => (/\ last'.exc # ExcDuplicate
            /\ \A k \in DOMAIN unit_table :
                   k \in DOMAIN unit_table' /\ unit_table'[k] = unit_table[k]
            /\ Len(heap') >= Len(heap)
            /\ \A i \in 1..Len(heap) : heap'[i] = heap[i]
            /\ (DOMAIN unit_table' \ DOMAIN unit_table)
                   \subseteq PrefixedNames(last'.name, last'.range)
            /\ last'.exc = NoExc =>
                   PrefixedNames(last'.name, last'.range) \subseteq DOMAIN unit_table'
            /\ last'.again => (unit_table' = unit_table /\ heap' = heap))]_vars

\* addPrefixed('g', 'full') has returned a second time, kg still the unit of line 339
C9_Witness ==
    /\ pc = BootDone
    /\ last.op = "addPrefixed"
    /\ last.name = <<"g">>
    /\ last.range = "full"
    /\ last.again
    /\ last.exc = NoExc
    /\ heap[unit_table[<<"k", "g">>].ref].factor = PyInt(1)
    /\ <<"Y", "g">> \in DOMAIN unit_table

-----------------------------------------------------------------------------
(* The unit algebra on its own: operations applied to unit objects a caller  *)
(* builds and to the results of earlier operations.                          *)

\* the operations one behaviour chains
MaxAlgOps == 2

\* units a caller builds: the base units of lines 339-341, a unit with an int
\* factor, and two temperature scales with an offset
AlgUnits ==
    {UnitVal(PhysicalUnitNamed(<<"m">>, PyFloat(1, 1), BasePowers(1), PyInt(0), "", "")),
     UnitVal(PhysicalUnitNamed(<<"k", "g">>, PyInt(1), BasePowers(2), PyInt(0), "", "")),
     UnitVal(PhysicalUnitNamed(<<"g">>, FloatE(1, -3), BasePowers(2), PyInt(0), "", "")),
     UnitVal(PhysicalUnitNamed(<<"K">>, PyFloat(1, 1), BasePowers(5), PyInt(0), "", "")),
     UnitVal(PhysicalUnitNamed(<<"d", "e", "g", "C">>, PyFloat(1, 1), BasePowers(5),
                               PyFloat(27315, 100), "", "")),
     UnitVal(PhysicalUnitNamed(<<"d", "e", "g", "F">>, PyFloat(5, 9), BasePowers(5),
                               PyFloat(45967, 100), "", ""))}

\* plain numbers a unit is multiplied with or divided by
AlgScalars == {NumVal(PyInt(2)), NumVal(PyInt(10)), NumVal(PyFloat(1, 2))}

\* exponents: ints, and floats that are and are not the inverse of an int
AlgExponents ==
    {NumVal(PyInt(-1)), NumVal(PyInt(0)), NumVal(PyInt(2)),
     NumVal(PyFloat(1, 2)), NumVal(PyFloat(-1, 2)), NumVal(PyFloat(1, 3)),
     NumVal(PyFloat(3, 10)), NumVal(PyFloat(1, 1)),
     NumVal(PyFloat(0, 1)), NumVal(FloatE(1, 11))}

\* values to convert
AlgValues == {NumVal(PyFloat(100, 1)), NumVal(PyFloat(-40, 1))}

\* the unit an earlier operation returned, if any
Returned == IF last.exc = NoExc /\ isPhysicalUnit(last.val) THEN {last.val} ELSE {}

AlgLive == nops < MaxAlgOps

Operands(a, b, x) == [a |-> a, b |-> b, x |-> x, keys |-> <<>>]

InitAlg ==
    /\ unit_table = EmptyTable
    /\ heap = <<>>
    /\ pc = 1
    /\ nops = 0
    /\ last = [op |-> "none", name |-> <<>>, arg |-> NoneVal, range |-> "",
               exc |-> NoExc, val |-> NoneVal, again |-> FALSE]
    /\ opnd = NoOperands

\* the operation op on self, other and x has ended as r
Applied(op, self, other, x, r) ==
    /\ last' = Last(op, <<>>, NoneVal, "", r.exc, r.val)
    /\ opnd' = Operands(self, other, x)

\* self * other
Multiply ==
    /\ AlgLive
    /\ \E self \in AlgUnits \cup Returned, other \in AlgUnits \cup Returned \cup AlgScalars :
        Applied("multiply", self, other, NoneVal, __mul__(self.u, other))
    /\ nops' = nops + 1
    /\ UNCHANGED <<unit_table, heap, pc>>

\* self / other
Divide ==
    /\ AlgLive
    /\ \E self \in AlgUnits \cup Returned, other \in AlgUnits \cup Returned \cup AlgScalars :
        Applied("divide", self, other, NoneVal, __div__(self.u, other))
    /\ nops' = nops + 1
    /\ UNCHANGED <<unit_table, heap, pc>>

\* other / self
ReverseDivide ==
    /\ AlgLive
    /\ \E self \in AlgUnits \cup Returned, other \in AlgUnits \cup Returned \cup AlgScalars :
        Applied("reverseDivide", self, other, NoneVal, __rdiv__(self.u, other))
    /\ nops' = nops + 1
    /\ UNCHANGED <<unit_table, heap, pc>>

\* self ** other
Power ==
    /\ AlgLive
    /\ \E self \in AlgUnits \cup Returned, other \in AlgExponents :
        Applied("power", self, other, NoneVal, __pow__(self.u, other))
    /\ nops' = nops + 1
    /\ UNCHANGED <<unit_table, heap, pc>>

\* self.conversion_factor_to(other)
ConversionFactorTo ==
    /\ AlgLive
    /\ \E self \in AlgUnits \cup Returned, other \in AlgUnits \cup Returned :
        Applied("conversionFactorTo", self, other, NoneVal,
                conversion_factor_to(self.u, other.u))
    /\ nops' = nops + 1
    /\ UNCHANGED <<unit_table, heap, pc>>

\* self.conversion_tuple_to(other)
ConversionTupleTo ==
    /\ AlgLive
    /\ \E self \in AlgUnits \cup Returned, other \in AlgUnits \cup Returned :
        Applied("conversionTupleTo", self, other, NoneVal,
                conversion_tuple_to(self.u, other.u))
    /\ nops' = nops + 1
    /\ UNCHANGED <<unit_table, heap, pc>>

\* convertValue(value, src_unit, target_unit)
ConvertValue ==
    /\ AlgLive
    /\ \E self \in AlgUnits \cup Returned, other \in AlgUnits \cup Returned, value \in AlgValues :
        Applied("convertValue", self, other, value,
                convertValue(value.num, self.u, other.u))
    /\ nops' = nops + 1
    /\ UNCHANGED <<unit_table, heap, pc>>

NextAlg ==
    \/ Multiply
    \/ Divide
    \/ ReverseDivide
    \/ Power
    \/ ConversionFactorTo
    \/ ConversionTupleTo
    \/ ConvertValue

SpecAlg == InitAlg /\ [][NextAlg]_vars

-----------------------------------------------------------------------------
(* The algebra's contract *)

HasOffset(v) == isPhysicalUnit(v) /\ ~IsZero(v.u.offset)

\* NonAffineCombination, as the operation words it
NonAffine(op) ==
    IF op = "multiply" THEN ExcMultiplyOffset
    ELSE IF op = "power" THEN ExcPowOffset
    ELSE ExcDivideOffset

\* the quotient x / y of the real numbers, y not zero
Quotient(x, y) == NumDiv([x EXCEPT !.k = "float"], y)

\* C5: multiply, divide, reverseDivide and power fail with
\* NonAffineCombination and return no unit when a unit operand (the base, for
\* power) has a non-zero offset; every unit they return has offset 0.
C5_NonAffineRejected ==
    last.op \in {"multiply", "divide", "reverseDivide", "power"} =>
        /\ (HasOffset(opnd.a) \/ (last.op # "power" /\ HasOffset(opnd.b)))
               => (last.exc = NonAffine(last.op) /\ last.val = NoneVal)
        /\ last.exc = NoExc => (isPhysicalUnit(last.val) /\ IsZero(last.val.u.offset))

\* a unit without offset times a unit with one has been rejected
C5_Witness ==
    /\ last.op = "multiply"
    /\ ~HasOffset(opnd.a)
    /\ HasOffset(opnd.b)
    /\ last.exc = ExcMultiplyOffset

\* the exponent e is the inverse of an int r that divides every power of u
IsRootOf(u, e) ==
    /\ ~IsZero(e)
    /\ LET inv_exp == Quotient(PyInt(1), e)
           r       == RoundHalfUp(inv_exp)
       IN  /\ WithinTolerance(inv_exp, r)
           /\ r # 0
           /\ AllDivisible(u.powers, r)

\* C6: for a unit u without offset and a float exponent e, power(u, e) either
\* returns a unit with u's powers divided by r = round(1/e), when
\* |1/e - r| < 1e-10 and r divides every power of u, or fails with
\* IllegalExponent; no other error escapes.
C6_FloatExponent ==
    (last.op = "power" /\ ~HasOffset(opnd.a) /\ ~IsInt(opnd.b.num)) =>
        IF IsRootOf(opnd.a.u, opnd.b.num)
        THEN /\ last.exc = NoExc
             /\ isPhysicalUnit(last.val)
             /\ LET r == RoundHalfUp(Quotient(PyInt(1), opnd.b.num))
                IN  \A i \in 1..NDims : last.val.u.powers[i] * r = opnd.a.u.powers[i]
        ELSE /\ last.exc \in {ExcIllegalExponent, ExcOnlyInteger}
             /\ last.val = NoneVal

\* C7: conversionFactorTo(a, b) fails with IncompatibleDimensions when the
\* powers differ, with NonExpressibleConversion when they are equal and both
\* the offsets and the factors differ, and returns a.factor / b.factor in
\* every other case.
C7_ConversionFactor ==
    last.op = "conversionFactorTo" =>
        LET a == opnd.a.u
            b == opnd.b.u
        IN  IF a.powers # b.powers THEN last.exc = ExcIncompatible
            ELSE IF ~NumEq(a.offset, b.offset) /\ ~NumEq(a.factor, b.factor)
            THEN last.exc = ExcNotSimpleFactor
            ELSE /\ last.exc = NoExc
                 /\ NumEq(last.val.num, Quotient(a.factor, b.factor))

\* x converted from a-units to base units and from there to b-units
ViaBase(x, a, b) ==
    NumSub(Quotient(NumMul(NumAdd(x, a.offset), a.factor), b.factor), b.offset)

\* C8: for a and b of equal powers conversionTupleTo(a, b) returns (S, D)
\* with S = a.factor / b.factor and D = a.offset - b.offset * b.factor /
\* a.factor, and (x + D) * S is x converted through the base units.
C8_ConversionTuple ==
    LET a == opnd.a.u
        b == opnd.b.u
    IN  /\ (last.op = "conversionTupleTo" /\ a.powers = b.powers) =>
               /\ last.exc = NoExc
               /\ NumEq(last.val.factor, Quotient(a.factor, b.factor))
               /\ NumEq(last.val.offset,
                        NumSub(a.offset, Quotient(NumMul(b.offset, b.factor), a.factor)))
        /\ (last.op = "convertValue" /\ a.powers = b.powers) =>
               /\ last.exc = NoExc
               /\ NumEq(last.val.num, ViaBase(opnd.x.num, a, b))

-----------------------------------------------------------------------------
(* Display and resolve: after the import a caller composes a unit from the   *)
(* registry's entries, prints it and hands the text to findUnit.             *)

\* the multiplications, divisions and powers one composition chains
MaxCompose == 2

\* the registry entries a caller composes from
RoundNames == {<<"m">>, <<"s">>, <<"k", "g">>, <<"m", "u", "m">>, <<"d", "e", "g">>}

\* the int powers a caller raises to
RoundPowers == {-1, 0, 2}

Composing == pc = BootDone /\ isPhysicalUnit(opnd.a) /\ nops < MaxCompose

\* u = unit_table[key]
Pick ==
    /\ pc = BootDone
    /\ opnd.a = NoneVal
    /\ \E key \in RoundNames :
        opnd' = [opnd EXCEPT !.a = unit_table[key]]
    /\ UNCHANGED <<unit_table, heap, pc, nops, last>>

\* the composition goes on with the unit an operation has returned as r
Composed(r) ==
    /\ r.exc = NoExc
    /\ opnd' = [opnd EXCEPT !.a = r.val, !.keys = <<>>]

\* u = u * unit_table[key]
ComposeMul ==
    /\ Composing
    /\ \E key \in RoundNames :
        Composed(ApplyBin(<<"*">>, AsOperand(opnd.a, heap), AsOperand(unit_table[key], heap)))
    /\ last' = Last("multiply", <<>>, NoneVal, "", NoExc, NoneVal)
    /\ nops' = nops + 1
    /\ UNCHANGED <<unit_table, heap, pc>>

\* u = u / unit_table[key]
ComposeDiv ==
    /\ Composing
    /\ \E key \in RoundNames :
        Composed(ApplyBin(<<"/">>, AsOperand(opnd.a, heap), AsOperand(unit_table[key], heap)))
    /\ last' = Last("divide", <<>>, NoneVal, "", NoExc, NoneVal)
    /\ nops' = nops + 1
    /\ UNCHANGED <<unit_table, heap, pc>>

\* u = u ** n
ComposePow ==
    /\ Composing
    /\ \E n \in RoundPowers :
        Composed(ApplyBin(<<"*", "*">>, AsOperand(opnd.a, heap), NumVal(PyInt(n))))
    /\ last' = Last("power", <<>>, NoneVal, "", NoExc, NoneVal)
    /\ nops' = nops + 1
    /\ UNCHANGED <<unit_table, heap, pc>>

\* the text of u, its keys visited in the order given, is handed to findUnit
Trip(text, order) ==
    /\ Ended("roundtrip", <<>>, StrV(text), "", findUnit(StrV(text), unit_table, heap))
    /\ opnd' = [opnd EXCEPT !.keys = order]

\* findUnit(str(u)), the dictionary of names handing out its keys in some order
RoundTrip ==
    /\ pc = BootDone
    /\ isPhysicalUnit(opnd.a)
    /\ \E order \in KeyOrders(Obj(opnd.a, heap).names) :
        Trip(__str__(Obj(opnd.a, heap), order), order)
    /\ UNCHANGED <<pc, nops>>

NextRound ==
    \/ BootStep
    \/ Pick
    \/ ComposeMul
    \/ ComposeDiv
    \/ ComposePow
    \/ RoundTrip

SpecRound == Init /\ [][NextRound]_vars

\* C10: for a unit u composed from registry entries by multiply, divide and
\* int power, findUnit(str(u)) returns a unit with u's powers and u's factor.
C10_RoundTrip ==
    last.op = "roundtrip" =>
        /\ last.exc = NoExc
        /\ isPhysicalUnit(last.val)
        /\ Obj(last.val, heap).powers = Obj(opnd.a, heap).powers
        /\ NumEq(Obj(last.val, heap).factor, Obj(opnd.a, heap).factor)

-----------------------------------------------------------------------------
(* The predicates of a unit: a caller constructs a PhysicalUnit with a list   *)
(* of powers and reads is_angle and is_dimensionless.                         *)

\* the largest absolute value of a power
MaxPower == 1

\* the powers that are not zero, at most three of them
PredPowers ==
    {[n \in 1..NDims |-> IF n = i THEN a ELSE IF n = j THEN b ELSE IF n = k THEN c ELSE 0] :
        i \in 1..NDims, j \in 1..NDims, k \in 1..NDims,
        a \in -MaxPower..MaxPower, b \in -MaxPower..MaxPower, c \in -MaxPower..MaxPower}

BoolVal(b) == [t |-> "bool", b |-> b]

InitPred ==
    /\ unit_table = EmptyTable
    /\ heap = <<>>
    /\ pc = 1
    /\ nops = 0
    /\ last = [op |-> "none", name |-> <<>>, arg |-> NoneVal, range |-> "",
               exc |-> NoExc, val |-> NoneVal, again |-> FALSE]
    /\ \E p \in PredPowers :
        opnd = Operands(UnitVal(PhysicalUnitNamed(<<"u">>, PyFloat(1, 1), p, PyInt(0), "", "")),
                        NoneVal, NoneVal)

\* u.is_angle
IsAngle ==
    /\ last.op # "isAngle"
    /\ last' = Last("isAngle", <<>>, NoneVal, "", NoExc, BoolVal(is_angle(opnd.a.u)))
    /\ UNCHANGED <<unit_table, heap, pc, nops, opnd>>

\* u.is_dimensionless
IsDimensionless ==
    /\ last.op # "isDimensionless"
    /\ last' = Last("isDimensionless", <<>>, NoneVal, "", NoExc,
                    BoolVal(is_dimensionless(opnd.a.u)))
    /\ UNCHANGED <<unit_table, heap, pc, nops, opnd>>

NextPred ==
    \/ IsAngle
    \/ IsDimensionless

SpecPred == InitPred /\ [][NextPred]_vars

\* the index of rad in base_names, the component 7 of the powers counted from 0
AngleIndex == CHOOSE i \in 1..NDims : base_names[i] = <<"r", "a", "d">>

\* C11: isAngle(u) is true exactly when the planar-angle component of u's
\* powers is 1 and the eight other components are 0; isDimensionless(u) is
\* true exactly when all nine components are 0.
C11_Predicates ==
    /\ last.op = "isAngle" =>
           (last.val.b <=> \A i \in 1..NDims :
                               opnd.a.u.powers[i] = IF i = AngleIndex THEN 1 ELSE 0)
    /\ last.op = "isDimensionless" =>
           (last.val.b <=> \A i \in 1..NDims : opnd.a.u.powers[i] = 0)

-----------------------------------------------------------------------------
(* findUnit as a read of the registry *)

\* C12: findUnit(text) reads the registry and no more: whether it returns a
\* unit or fails, unit_table has the keys and the units it had before the
\* call, and the mapping eval works on during the call is that same mapping.
C12_ResolveReadsOnly ==
    [][(last'.op = "resolve")
        => (/\ unit_table' = unit_table
            /\ heap' = heap
            /\ WithBuiltins(unit_table) = unit_table)]_vars

-----------------------------------------------------------------------------
(* The names of the registered units *)

\* every unit of the table is named by its key alone
Canonical(table, objects) ==
    \A k \in DOMAIN table :
        isPhysicalUnit(table[k]) => objects[table[k].ref].names = OneEntry(k, 1)

\* the step is a call of addUnit or addPrefixed that returns
Registers == last'.op \in {"addUnit", "addPrefixed"} /\ last'.exc = NoExc

\* C13: a call of addUnit or addPrefixed that returns, in the module body or
\* after it, keeps every unit of unit_table named {key: 1} and leaves every
\* unit that was registered before the call as it was, names and metadata.
C13_NamesCanonical ==
    [][(Registers /\ Canonical(unit_table, heap))
        => (/\ Canonical(unit_table', heap')
            /\ \A k \in DOMAIN unit_table :
                   isPhysicalUnit(unit_table[k]) =>
                       heap'[unit_table[k].ref] = heap[unit_table[k].ref])]_vars

=============================================================================
